---------------------------- MODULE Spec2Model ----------------------------
(***************************************************************************)
(* A model of the visual matcher server: the model loader (loadModel), the *)
(* GET route and the POST /match handler, in the four source variants of   *)
(* the repository (src/server.js and src/unnamed/part_000..part_002).      *)
(* Each await of the handler is a suspension point, so each action runs    *)
(* the handler from one await to the next.                                 *)
(***************************************************************************)
EXTENDS Integers, Sequences, FiniteSets, TLC

VARIABLES
    variant,    \* which source file is the running server
    catalog,    \* the catalog matcher's condition: "ok", "error", "unconfigured"
    loadPc,     \* position of loadModel: "top", "delay", "loading", "ready", "failed"
    extractor,  \* the module-level handle: "null" or "pipeline"
    loadStarts, \* number of calls of pipeline(...) made so far
    alive,      \* the process has not died of an uncaught error
    pc,         \* per request slot: position of the handler
    req,        \* per request slot: the request being served
    topColors,  \* per request slot: the handler's local topColors
    rect,       \* per request slot: the rectangle handed to sharp's extract
    query,      \* per request slot: the arguments of the rpc call in flight
    steps,      \* per request slot: the pipeline steps started, in order
    rpcCalls,   \* per request slot: calls of supabase.rpc made
    sent,       \* per request slot: responses sent
    failedAt,   \* per request slot: the step that threw, or "none"
    seen,       \* per request slot: the engine state when the request arrived
    resp        \* per request slot: the response sent

vars == <<variant, catalog, loadPc, extractor, loadStarts, alive, pc, req,
          topColors, rect, query, steps, rpcCalls, sent, failedAt, seen, resp>>

----------------------------------------------------------------------------
(* Bounds of the model.                                                    *)

MaxReq == 1         \* request slots of the server as a whole
MaxConc == 2        \* request slots: handlers in flight at once against a ready engine
MaxDim == 46        \* largest image width and height of the crop check
MaxPixels == 4      \* longest downsampled pixel sequence of the colour check

----------------------------------------------------------------------------
(* IEEE-754 double arithmetic of the crop computation.  A natural number   *)
(* is a little-endian sequence of bits, so that the 53-bit significands    *)
(* and their products are exact.                                           *)

RECURSIVE NatToBits(_)
NatToBits(n) == IF n = 0 THEN <<>> ELSE <<n % 2>> \o NatToBits(n \div 2)

RECURSIVE BitsToNat(_)
BitsToNat(b) == IF b = <<>> THEN 0 ELSE b[1] + 2 * BitsToNat(Tail(b))

RECURSIVE Trim(_)
Trim(b) == IF b # <<>> /\ b[Len(b)] = 0 THEN Trim(SubSeq(b, 1, Len(b) - 1)) ELSE b

Zeros(n) == [i \in 1..n |-> 0]

RECURSIVE MulSmall(_, _, _)
MulSmall(b, w, carry) ==
    IF b = <<>> THEN NatToBits(carry)
    ELSE LET t == b[1] * w + carry
         IN  <<t % 2>> \o MulSmall(Tail(b), w, t \div 2)

RECURSIVE AddBits(_, _, _)
AddBits(a, b, carry) ==
    IF a = <<>> /\ b = <<>> THEN (IF carry = 1 THEN <<1>> ELSE <<>>)
    ELSE LET x == IF a = <<>> THEN 0 ELSE a[1]
             y == IF b = <<>> THEN 0 ELSE b[1]
             t == x + y + carry
         IN  <<t % 2>> \o AddBits(IF a = <<>> THEN <<>> ELSE Tail(a),
                                  IF b = <<>> THEN <<>> ELSE Tail(b), t \div 2)

HexDigitBits(d) == <<d % 2, (d \div 2) % 2, (d \div 4) % 2, (d \div 8) % 2>>

RECURSIVE HexToBits(_)
\* the bits of a number written as hex digits, most significant digit first
HexToBits(h) ==
    IF h = <<>> THEN <<>> ELSE HexToBits(Tail(h)) \o HexDigitBits(h[1])

\* The double nearest 0.7 is 0x16666666666666 * 2^-53 (0x3FE6666666666666).
Sig07 == Trim(HexToBits(<<1, 6, 6, 6, 6, 6, 6, 6, 6, 6, 6, 6, 6, 6>>))
Exp07 == 53
\* The double nearest 0.15 is 0x13333333333333 * 2^-55 (0x3FC3333333333333).
Sig015 == Trim(HexToBits(<<1, 3, 3, 3, 3, 3, 3, 3, 3, 3, 3, 3, 3, 3>>))
Exp015 == 55
SigBits == 53

\* Round an exact natural to 53 significant bits, ties to even.
RoundToDouble(p) ==
    IF Len(p) <= SigBits THEN p
    ELSE LET s    == Len(p) - SigBits
             q    == SubSeq(p, s + 1, Len(p))
             half == p[s] = 1
             rest == \E i \in 1..(s - 1) : p[i] = 1
             up   == half /\ (rest \/ q[1] = 1)
         IN  Zeros(s) \o (IF up THEN AddBits(q, <<1>>, 0) ELSE q)

\* w * c in double arithmetic, c = sig * 2^-ex: the product as a multiple of 2^-ex.
FloatMul(w, sig) == RoundToDouble(Trim(MulSmall(sig, w, 0)))

\* Math.round of the double x = v * 2^-ex: floor(x + 1/2).
MathRound(v, ex) ==
    LET sum == AddBits(v, Zeros(ex - 1) \o <<1>>, 0)
    IN  IF Len(sum) <= ex THEN 0 ELSE BitsToNat(SubSeq(sum, ex + 1, Len(sum)))

\* Math.round(w * 0.7) and Math.round(w * 0.15), computed bit by bit
SlowRound07(w) == MathRound(FloatMul(w, Sig07), Exp07)
SlowRound015(w) == MathRound(FloatMul(w, Sig015), Exp015)

\* The widths and heights that occur, and the two roundings tabulated on them
\* (a table is computed once).
KnownDims == (1..MaxDim) \cup {50, 64, 800, 1000}
Table07 == [w \in KnownDims |-> SlowRound07(w)]
Table015 == [w \in KnownDims |-> SlowRound015(w)]

Round07(w) == Table07[w]
Round015(w) == Table015[w]

\* Math.round(n / 2) for a natural n: n / 2 is exact, a half rounds up.
RoundHalf(n) == (n + 1) \div 2

----------------------------------------------------------------------------
(* The deployment: the source variants and the catalog matcher.            *)

Variants == {"server", "part_000", "part_001", "part_002"}

\* The variants whose loadModel waits on a timer before calling pipeline().
HasDelay(v) == v \in {"server", "part_000"}

\* "unconfigured": the Supabase client is null.  server.js calls createClient
\* unconditionally and cannot start without credentials.
Catalogs(v) == IF v = "server" THEN {"ok", "error"} ELSE {"ok", "error", "unconfigured"}

----------------------------------------------------------------------------
(* Request bodies.  An image is what the client put in the image field and *)
(* what the libraries make of it: whether sharp can decode it, its width,  *)
(* height and alpha channel, the pixels of its 50x50 downsample (as many   *)
(* as the model's bound allows), and the output of the vision model on it. *)

Image(kind, decodable, w, h, alpha, pixels, native, embedOk) ==
    [kind |-> kind, decodable |-> decodable, width |-> w, height |-> h,
     alpha |-> alpha, pixels |-> pixels, native |-> native, embedOk |-> embedOk]

White == <<255, 255, 255>>
Black == <<0, 0, 0>>
Red   == <<255, 0, 0>>
Teal  == <<0, 128, 128>>
Navy  == <<10, 10, 200>>
Edge  == <<241, 241, 240>>     \* one channel at the near-white threshold
Dusk  == <<14, 14, 15>>        \* one channel at the near-black threshold

NoImage     == Image("missing", FALSE, 0, 0, FALSE, <<>>, 0, FALSE)
EmptyImage  == Image("empty", FALSE, 0, 0, FALSE, <<>>, 0, FALSE)
NumberImage == Image("nonstring", FALSE, 0, 0, FALSE, <<>>, 0, FALSE)
Garbage     == Image("string", FALSE, 0, 0, FALSE, <<>>, 0, FALSE)
Photo       == Image("string", TRUE, 1000, 800, FALSE, <<Red, White, Teal, Red>>, 1536, TRUE)
Thumb       == Image("string", TRUE, 45, 3, FALSE, <<Navy, Teal, Black>>, 767, TRUE)
Cutout      == Image("string", TRUE, 64, 64, TRUE, <<White, White>>, 768, TRUE)
Poison      == Image("string", TRUE, 10, 10, FALSE, <<Red>>, 768, FALSE)

Images == {NoImage, EmptyImage, NumberImage, Garbage, Photo, Thumb, Cutout, Poison}

Request(method, path, image) == [method |-> method, path |-> path, image |-> image]

NoRequest == Request("none", "", NoImage)

Requests ==
    {Request("GET", "/", NoImage), Request("GET", "/health", NoImage)}
        \cup {Request("POST", "/match", i) : i \in Images}

----------------------------------------------------------------------------
(* sharp: what the handler gets back from it.                              *)

\* .raw() keeps the channels of the decoded image: 4 with alpha, else 3.
Channels(img) == IF img.alpha THEN 4 ELSE 3

RECURSIVE RawBytes(_, _)
RawBytes(pixels, channels) ==
    IF pixels = <<>> THEN <<>>
    ELSE pixels[1] \o (IF channels = 4 THEN <<255>> ELSE <<>>)
             \o RawBytes(Tail(pixels), channels)

\* sharp(buffer).resize(50, 50).raw().toBuffer(): the data of the downsample
TinyData(img) == RawBytes(img.pixels, Channels(img))

\* .extract(...).resize(512, 512, {fit: 'inside'}).raw(): processed.info.channels,
\* the channels of the decoded image again
FrameChannels(img) == Channels(img)

\* new RawImage(processed.data, width, height, 3): the declared channel count
RawImageChannels == 3

\* .extract(rect) rejects a rectangle that is empty or leaves the image
ExtractOk(img, rc) ==
    /\ rc.width >= 1 /\ rc.height >= 1
    /\ rc.left + rc.width <= img.width
    /\ rc.top + rc.height <= img.height

----------------------------------------------------------------------------
(* Colour extraction: the stride-3 loop over the raw data, the counts in   *)
(* an object (keys in insertion order), the sort and the slice.            *)

HexChars == <<"0", "1", "2", "3", "4", "5", "6", "7",
              "8", "9", "a", "b", "c", "d", "e", "f">>

RECURSIVE ToString16(_)
\* Number.prototype.toString(16) of a natural, as a sequence of characters
ToString16(n) ==
    IF n < 16 THEN <<HexChars[n + 1]>>
    ELSE ToString16(n \div 16) \o <<HexChars[(n % 16) + 1]>>

\* "#" + ((1 << 24) + (r << 16) + (g << 8) + b).toString(16).slice(1)
HexOf(r, g, b) == <<"#">> \o Tail(ToString16(16777216 + r * 65536 + g * 256 + b))

\* "#" + NaN.toString(16).slice(1): the key when a channel is read past the end
NaNKey == <<"#", "a", "N">>

\* the background test of the loop
Skipped(r, g, b) ==
    \/ (r > 240 /\ g > 240 /\ b > 240)
    \/ (r < 15 /\ g < 15 /\ b < 15)

\* colorCounts[hex] = (colorCounts[hex] || 0) + 1, on a sequence of <<key, count>>
Bump(counts, key) ==
    IF \E k \in 1..Len(counts) : counts[k][1] = key
    THEN [k \in 1..Len(counts) |->
             IF counts[k][1] = key THEN <<key, counts[k][2] + 1>> ELSE counts[k]]
    ELSE Append(counts, <<key, 1>>)

RECURSIVE CountColors(_, _, _)
\* for (let i = 0; i < data.length; i += 3) { ... }; i is 0-based
CountColors(data, i, counts) ==
    IF i >= Len(data) THEN counts
    ELSE IF i + 2 >= Len(data)
         \* g or b is undefined: both comparisons are false, the sum is NaN
         THEN CountColors(data, i + 3, Bump(counts, NaNKey))
         ELSE LET r == data[i + 1]
                  g == data[i + 2]
                  b == data[i + 3]
              IN  IF Skipped(r, g, b) THEN CountColors(data, i + 3, counts)
                  ELSE CountColors(data, i + 3, Bump(counts, HexOf(r, g, b)))

\* ComesAfter with a comparator that also moves equal counts
ComesAfterOrEqual(a, b) == b[2] - a[2] >= 0

\* the comparator (a, b) => colorCounts[b] - colorCounts[a] puts a after b
\* only when it is positive
ComesAfter(a, b) == b[2] - a[2] > 0

RECURSIVE InsertStable(_, _)
\* one step of a stable sort: e goes behind every element it does not beat
InsertStable(sorted, e) ==
    IF sorted = <<>> THEN <<e>>
    ELSE IF ComesAfter(sorted[1], e) THEN <<e>> \o sorted
         ELSE <<sorted[1]>> \o InsertStable(Tail(sorted), e)

RECURSIVE SortCounts(_, _)
\* Array.prototype.sort, stable, on the keys in insertion order
SortCounts(counts, sorted) ==
    IF counts = <<>> THEN sorted
    ELSE SortCounts(Tail(counts), InsertStable(sorted, counts[1]))

\* Array.prototype.slice(0, n)
Slice(s, n) == SubSeq(s, 1, IF Len(s) < n THEN Len(s) ELSE n)

TopCount == 3

TopColors(data) ==
    LET sorted == SortCounts(CountColors(data, 0, <<>>), <<>>)
    IN  Slice([k \in 1..Len(sorted) |-> sorted[k][1]], TopCount)

----------------------------------------------------------------------------
(* The crop rectangle.                                                     *)

Rect(l, t, w, h) == [left |-> l, top |-> t, width |-> w, height |-> h]

\* server.js, part_000, part_001: every side rounded from its own product
CropDirect(w, h) == Rect(Round015(w), Round015(h), Round07(w), Round07(h))

\* part_002: the size first, the origin from what is left over
CropCentered(w, h) ==
    LET cropW == Round07(w)
        cropH == Round07(h)
    IN  Rect(RoundHalf(w - cropW), RoundHalf(h - cropH), cropW, cropH)

CropRect(v, w, h) == IF v = "part_002" THEN CropCentered(w, h) ELSE CropDirect(w, h)

----------------------------------------------------------------------------
(* The vision model and the catalog matcher.                               *)

EmbedDim == 768

\* output.data of the extractor: as many numbers as the model yields; the
\* values tell the positions and the images apart
ModelOutput(img) == [i \in 1..img.native |-> i + img.width]

\* Truncate without the slice
NoTruncate(out) == out

\* Array.from(output.data).slice(0, 768)
Truncate(out) == Slice(out, EmbedDim)

MatchThreshold == "0.4"
MatchCount == 6

RpcArgs(vector, colors) ==
    [query_embedding |-> vector, query_colors |-> colors,
     match_threshold |-> MatchThreshold, match_count |-> MatchCount]

NoQuery == RpcArgs(<<>>, <<>>)

\* the reply of match_products_advanced: {data, error}; an unchanged catalog
\* answers a query by a function of the query
RpcReply(cat, q) ==
    IF cat = "error"
    THEN [error |-> TRUE, message |-> "catalog error", data |-> <<>>]
    ELSE [error |-> FALSE, message |-> "",
          data |-> <<q.query_embedding[1], Len(q.query_colors)>>]

----------------------------------------------------------------------------
(* Responses.  fields is the set of keys of the JSON body.  No route of    *)
(* any variant writes a status or an ai_ready key, so ai_ready is FALSE    *)
(* and never among the fields.                                             *)

Response(status, type, fields, success, error, matches, colors, text) ==
    [status |-> status, type |-> type, fields |-> fields, success |-> success,
     error |-> error, matches |-> matches, colors |-> colors, text |-> text,
     ai_ready |-> FALSE]

NoResponse == Response(0, "none", {}, FALSE, "", <<>>, <<>>, "")

\* part_001 and part_002 put success: false in their error bodies
ErrorBody(v, status, msg) ==
    IF v \in {"part_001", "part_002"}
    THEN Response(status, "json", {"success", "error"}, FALSE, msg, <<>>, <<>>, "")
    ELSE Response(status, "json", {"error"}, FALSE, msg, <<>>, <<>>, "")

NoImageMessage(v) ==
    CASE v = "part_001" -> "No image provided"
      [] v = "part_002" -> "No image base64 provided in request body."
      [] OTHER -> "No image"

LoadingMessage(v) ==
    CASE v = "server"   -> "Model loading"
      [] v = "part_000" -> "AI still loading"
      [] v = "part_001" -> "AI Model is still loading..."
      [] OTHER -> "AI Model is still booting up. Try again in a few seconds."

\* the message of the error thrown when the Supabase client is null
NoClientMessage(v) ==
    CASE v = "part_001" -> "Database connection not established."
      [] v = "part_002" -> "Supabase is not configured on the server."
      [] OTHER -> "Cannot read properties of null (reading 'rpc')"

RootText(v) ==
    CASE v = "server"   -> "AI Visual Matcher is Active"
      [] v = "part_000" -> "API is Online"
      [] v = "part_001" -> "AI Visual Matcher API is Online"
      [] OTHER -> "AI Visual Matcher is running."

\* res.json({ success: true, matches, colors_detected: topColors })
SuccessBody(matches, colors) ==
    Response(200, "json", {"success", "matches", "colors_detected"}, TRUE, "",
             matches, colors, "")

\* app.get('/') is the only GET route; Express answers any other path 404
GetResponse(v, path) ==
    IF path = "/"
    THEN Response(200, "text", {}, FALSE, "", <<>>, <<>>, RootText(v))
    ELSE Response(404, "html", {}, FALSE, "", <<>>, <<>>, "Cannot GET")

----------------------------------------------------------------------------
(* The engine, as the spec names its states, read off loadModel's position *)
(* and the module-level handle.                                            *)

EngineState ==
    CASE extractor # "null"  -> "Ready"
      [] loadPc = "failed"   -> "Failed"
      [] loadPc = "loading"  -> "Loading"
      [] OTHER               -> "Unloaded"

Slots == DOMAIN pc

InFlight == {"tiny", "meta", "crop", "embed", "rpc"}

\* the request-scoped state of the slots S before a handler has run in them
FreshSlots(S) ==
    /\ pc = [r \in S |-> "idle"]
    /\ req = [r \in S |-> NoRequest]
    /\ seen = [r \in S |-> "none"]
    /\ topColors = [r \in S |-> <<>>]
    /\ rect = [r \in S |-> Rect(0, 0, 0, 0)]
    /\ query = [r \in S |-> NoQuery]
    /\ steps = [r \in S |-> <<>>]
    /\ rpcCalls = [r \in S |-> 0]
    /\ sent = [r \in S |-> 0]
    /\ failedAt = [r \in S |-> "none"]
    /\ resp = [r \in S |-> NoResponse]

\* the process before the script has run
Init ==
    /\ variant \in Variants
    /\ catalog \in Catalogs(variant)
    /\ loadPc = "top"
    /\ extractor = "null"
    /\ loadStarts = 0
    /\ alive = TRUE
    /\ FreshSlots(1..MaxReq)

----------------------------------------------------------------------------
(* The module's top level and loadModel.                                   *)

\* The script runs to its end in one turn: loadModel() runs to its first
\* await (the timer, or pipeline() where there is no timer), app.listen().
Startup ==
    /\ alive /\ loadPc = "top"
    /\ loadPc' = IF HasDelay(variant) THEN "delay" ELSE "loading"
    /\ loadStarts' = IF HasDelay(variant) THEN loadStarts ELSE loadStarts + 1
    /\ UNCHANGED <<variant, catalog, extractor, alive, pc, req, seen, topColors, rect, query, steps, rpcCalls, sent,
                   failedAt, resp>>

\* the stabilization timer fires: pipeline(...) is called
DelayElapsed ==
    /\ alive /\ loadPc = "delay"
    /\ loadPc' = "loading"
    /\ loadStarts' = loadStarts + 1
    /\ UNCHANGED <<variant, catalog, extractor, alive, pc, req, seen, topColors, rect, query, steps, rpcCalls, sent,
                   failedAt, resp>>

\* pipeline(...) resolves: extractor = await pipeline(...)
LoadSucceeded ==
    /\ alive /\ loadPc = "loading"
    /\ extractor' = "pipeline"
    /\ loadPc' = "ready"
    /\ UNCHANGED <<variant, catalog, loadStarts, alive, pc, req, seen, topColors, rect, query, steps, rpcCalls, sent,
                   failedAt, resp>>

\* LoadFailed with a retry: the catch calls pipeline(...) again
LoadFailedRetry ==
    /\ alive /\ loadPc = "loading"
    /\ loadPc' = "loading"
    /\ loadStarts' = loadStarts + 1
    /\ UNCHANGED <<variant, catalog, extractor, alive, pc, req, seen, topColors, rect, query, steps, rpcCalls, sent,
                   failedAt, resp>>

\* pipeline(...) rejects: the catch logs the error and loadModel returns
LoadFailed ==
    /\ alive /\ loadPc = "loading"
    /\ loadPc' = "failed"
    /\ UNCHANGED <<variant, catalog, extractor, loadStarts, alive, pc, req, seen,
                   topColors, rect, query, steps, rpcCalls, sent, failedAt, seen, resp>>

----------------------------------------------------------------------------
(* The handlers.                                                           *)

\* res.status(..).json(..) or res.send(..) in the handler of slot r, which has
\* sent n responses so far; the handler ends
Reply(r, response, n) ==
    /\ resp' = [resp EXCEPT ![r] = response]
    /\ sent' = [sent EXCEPT ![r] = n + 1]
    /\ pc' = [pc EXCEPT ![r] = "done"]
    /\ query' = [query EXCEPT ![r] = NoQuery]

\* Catch without the response: the error leaves the handler, nothing is sent
\* and the rejection ends the process
CatchRethrow(r, step, msg, n) ==
    /\ failedAt' = [failedAt EXCEPT ![r] = step]
    /\ pc' = [pc EXCEPT ![r] = "done"]
    /\ query' = [query EXCEPT ![r] = NoQuery]
    /\ alive' = FALSE
    /\ UNCHANGED <<resp, sent>>

\* catch (err) { res.status(500).json({ error: err.message }) }
Catch(r, step, msg, n) ==
    /\ failedAt' = [failedAt EXCEPT ![r] = step]
    /\ Reply(r, ErrorBody(variant, 500, msg), n)
    /\ alive' = alive

\* a return before the try block has anything to catch
Return(r, response) ==
    /\ failedAt' = [failedAt EXCEPT ![r] = "none"]
    /\ Reply(r, response, 0)
    /\ alive' = alive

\* A request arrives and its handler runs to its first await.
Arrive(r, q) ==
    /\ alive /\ loadPc # "top" /\ pc[r] \in {"idle", "done"}
    /\ req' = [req EXCEPT ![r] = q]
    /\ seen' = [seen EXCEPT ![r] = EngineState]
    /\ topColors' = [topColors EXCEPT ![r] = <<>>]
    /\ rect' = [rect EXCEPT ![r] = Rect(0, 0, 0, 0)]
    /\ rpcCalls' = [rpcCalls EXCEPT ![r] = 0]
    /\ IF q.method = "GET"
       THEN /\ Return(r, GetResponse(variant, q.path))
            /\ steps' = [steps EXCEPT ![r] = <<>>]
       ELSE IF q.image.kind \in {"missing", "empty"}
       \* if (!image) return res.status(400).json(...)
       THEN /\ Return(r, ErrorBody(variant, 400, NoImageMessage(variant)))
            /\ steps' = [steps EXCEPT ![r] = <<>>]
       ELSE IF extractor = "null"
       \* if (!extractor) return res.status(503).json(...)
       THEN /\ Return(r, ErrorBody(variant, 503, LoadingMessage(variant)))
            /\ steps' = [steps EXCEPT ![r] = <<>>]
       ELSE IF q.image.kind = "nonstring"
       \* image.replace is not a function: the TypeError lands in the catch
       THEN /\ Catch(r, "decode", "image.replace is not a function", 0)
            /\ steps' = [steps EXCEPT ![r] = <<"decode">>]
       \* Buffer.from(...), then await sharp(buffer).resize(50, 50)...
       ELSE /\ resp' = [resp EXCEPT ![r] = NoResponse]
            /\ sent' = [sent EXCEPT ![r] = 0]
            /\ pc' = [pc EXCEPT ![r] = "tiny"]
            /\ steps' = [steps EXCEPT ![r] = <<"decode", "tiny">>]
            /\ failedAt' = [failedAt EXCEPT ![r] = "none"]
            /\ UNCHANGED <<alive, query>>
    /\ UNCHANGED <<variant, catalog, loadPc, extractor, loadStarts>>

\* OwnColors with topColors at module scope: one variable, which holds what
\* the handler of the highest slot wrote
SharedColors(r) == topColors[CHOOSE q \in Slots : \A o \in Slots : o <= q]

\* the handler's own topColors, as the rpc arguments and the response read it
OwnColors(r) == topColors[r]

\* The downsample resolves or rejects; on success the colours are counted and
\* sharp(buffer).metadata() is awaited.
TinyDone(r) ==
    /\ alive /\ pc[r] = "tiny"
    /\ IF ~req[r].image.decodable
       THEN /\ Catch(r, "tiny", "Input buffer contains unsupported image format", sent[r])
            /\ UNCHANGED <<topColors, steps>>
       ELSE /\ topColors' = [topColors EXCEPT ![r] = TopColors(TinyData(req[r].image))]
            /\ steps' = [steps EXCEPT ![r] = @ \o <<"colors", "meta">>]
            /\ pc' = [pc EXCEPT ![r] = "meta"]
            /\ UNCHANGED <<alive, query, sent, failedAt, resp>>
    /\ UNCHANGED <<variant, catalog, loadPc, extractor, loadStarts, req, seen,
                   rect, rpcCalls>>

\* The metadata resolves; the rectangle is computed and the crop is awaited.
MetaDone(r) ==
    /\ alive /\ pc[r] = "meta"
    /\ rect' = [rect EXCEPT ![r] = CropRect(variant, req[r].image.width, req[r].image.height)]
    /\ steps' = [steps EXCEPT ![r] = Append(@, "crop")]
    /\ pc' = [pc EXCEPT ![r] = "crop"]
    /\ UNCHANGED <<variant, catalog, loadPc, extractor, loadStarts, alive, req, seen,
                   topColors, query, rpcCalls, sent, failedAt,
                   resp>>

\* The crop resolves or rejects; on success the frame is wrapped in a RawImage
\* and the extractor is awaited.
CropDone(r) ==
    /\ alive /\ pc[r] = "crop"
    /\ IF ~ExtractOk(req[r].image, rect[r])
       THEN /\ Catch(r, "crop", "extract_area: bad extract area", sent[r])
            /\ UNCHANGED steps
       ELSE /\ steps' = [steps EXCEPT ![r] = Append(@, "embed")]
            /\ pc' = [pc EXCEPT ![r] = "embed"]
            /\ UNCHANGED <<alive, query, sent, failedAt, resp>>
    /\ UNCHANGED <<variant, catalog, loadPc, extractor, loadStarts, req, seen,
                   topColors, rect, rpcCalls>>

\* The extractor resolves or rejects; on success the vector is cut and the
\* catalog matcher is called and awaited.
EmbedDone(r) ==
    /\ alive /\ pc[r] = "embed"
    /\ IF ~req[r].image.embedOk
       THEN /\ Catch(r, "embed", "inference failed", sent[r])
            /\ UNCHANGED <<steps, rpcCalls>>
       ELSE IF catalog = "unconfigured"
       \* if (!supabase) throw ..., or the TypeError of null.rpc in part_000
       THEN /\ Catch(r, "client", NoClientMessage(variant), sent[r])
            /\ UNCHANGED <<steps, rpcCalls>>
       ELSE /\ query' = [query EXCEPT ![r] =
                            RpcArgs(Truncate(ModelOutput(req[r].image)), OwnColors(r))]
            /\ rpcCalls' = [rpcCalls EXCEPT ![r] = @ + 1]
            /\ steps' = [steps EXCEPT ![r] = Append(@, "rpc")]
            /\ pc' = [pc EXCEPT ![r] = "rpc"]
            /\ UNCHANGED <<alive, sent, failedAt, resp>>
    /\ UNCHANGED <<variant, catalog, loadPc, extractor, loadStarts, req, seen,
                   topColors, rect>>

\* The catalog matcher answers: if (dbError) throw dbError; else the 200.
RpcDone(r) ==
    /\ alive /\ pc[r] = "rpc"
    /\ LET reply == RpcReply(catalog, query[r])
       IN  IF reply.error
           THEN Catch(r, "rpc", reply.message, sent[r])
           ELSE /\ Reply(r, SuccessBody(reply.data, OwnColors(r)), sent[r])
                /\ UNCHANGED <<alive, failedAt>>
    /\ UNCHANGED <<variant, catalog, loadPc, extractor, loadStarts, req, seen,
                   topColors, rect, steps, rpcCalls>>

Next ==
    \/ Startup
    \/ DelayElapsed
    \/ LoadSucceeded
    \/ LoadFailed
    \/ \E r \in Slots, q \in Requests : Arrive(r, q)
    \/ \E r \in Slots : TinyDone(r)
    \/ \E r \in Slots : MetaDone(r)
    \/ \E r \in Slots : CropDone(r)
    \/ \E r \in Slots : EmbedDone(r)
    \/ \E r \in Slots : RpcDone(r)

Spec == Init /\ [][Next]_vars

----------------------------------------------------------------------------
(* Concurrent handlers against a ready engine: the state after Startup,    *)
(* the timer and LoadSucceeded, before any request, with MaxConc slots.    *)

ConcRequests == {Request("POST", "/match", i) : i \in {Garbage, Photo, Thumb, Poison}}

InitConc ==
    /\ variant \in Variants
    /\ catalog \in Catalogs(variant)
    /\ loadPc = "ready"
    /\ extractor = "pipeline"
    /\ loadStarts = 1
    /\ alive = TRUE
    /\ FreshSlots(1..MaxConc)

NextConc ==
    \/ \E r \in Slots, q \in ConcRequests : Arrive(r, q)
    \/ \E r \in Slots : TinyDone(r)
    \/ \E r \in Slots : MetaDone(r)
    \/ \E r \in Slots : CropDone(r)
    \/ \E r \in Slots : EmbedDone(r)
    \/ \E r \in Slots : RpcDone(r)

SpecConc == InitConc /\ [][NextConc]_vars

----------------------------------------------------------------------------
(* The colour extraction on every short pixel sequence: one handler, on a  *)
(* ready engine, waiting for the downsample of its image.                  *)

Palette == {White, Black, Red, Teal, Edge, Dusk}

PixelSeqs == UNION {[1..n -> Palette] : n \in 0..MaxPixels}

\* a handler of slot 1 that has run to its first await on image img
AwaitingTiny(img) ==
    /\ loadPc = "ready"
    /\ extractor = "pipeline"
    /\ loadStarts = 1
    /\ alive = TRUE
    /\ pc = [r \in {1} |-> "tiny"]
    /\ req = [r \in {1} |-> Request("POST", "/match", img)]
    /\ seen = [r \in {1} |-> "Ready"]
    /\ topColors = [r \in {1} |-> <<>>]
    /\ rect = [r \in {1} |-> Rect(0, 0, 0, 0)]
    /\ query = [r \in {1} |-> NoQuery]
    /\ steps = [r \in {1} |-> <<"decode", "tiny">>]
    /\ rpcCalls = [r \in {1} |-> 0]
    /\ sent = [r \in {1} |-> 0]
    /\ failedAt = [r \in {1} |-> "none"]
    /\ resp = [r \in {1} |-> NoResponse]

InitColor ==
    /\ variant \in Variants
    /\ catalog = "ok"
    /\ \E px \in PixelSeqs : AwaitingTiny(Image("string", TRUE, 50, 50, FALSE, px, 768, TRUE))

NextColor == \E r \in Slots : TinyDone(r)

SpecColor == InitColor /\ [][NextColor]_vars

----------------------------------------------------------------------------
(* The crop rectangle on every small width and height, and on 1000 x 800:  *)
(* one handler, on a ready engine, that goes from its first await to the   *)
(* extractor.                                                              *)

Dims == ((1..MaxDim) \X (1..MaxDim)) \cup {<<1000, 800>>}

InitCrop ==
    /\ variant \in Variants
    /\ catalog = "ok"
    /\ \E d \in Dims : AwaitingTiny(Image("string", TRUE, d[1], d[2], FALSE, <<Red>>, 768, TRUE))

NextCrop ==
    \/ \E r \in Slots : TinyDone(r)
    \/ \E r \in Slots : MetaDone(r)
    \/ \E r \in Slots : CropDone(r)

SpecCrop == InitCrop /\ [][NextCrop]_vars

----------------------------------------------------------------------------
TypeOK ==
    /\ variant \in Variants /\ catalog \in Catalogs(variant)
    /\ loadPc \in {"top", "delay", "loading", "ready", "failed"}
    /\ extractor \in {"null", "pipeline"}
    /\ alive \in BOOLEAN
    /\ \A r \in Slots : pc[r] \in {"idle", "done"} \cup InFlight

\* slot r holds a POST /match whose body carries an image
PostWithImage(r) ==
    /\ req[r].method = "POST"
    /\ req[r].image.kind \notin {"missing", "empty"}

\* slot r holds a POST /match whose body has no image, or an empty one
PostWithoutImage(r) ==
    /\ req[r].method = "POST"
    /\ req[r].image.kind \in {"missing", "empty"}

\* no pipeline step has run for slot r and the catalog was not called
NothingRan(r) == steps[r] = <<>> /\ rpcCalls[r] = 0 /\ query[r] = NoQuery

----------------------------------------------------------------------------
(* C1: a POST /match with an image that arrives while the engine is        *)
(* Unloaded or Loading is answered at once (the handler never waits) with  *)
(* 503 {success: false, error: "AI Model is still loading..."}, and no     *)
(* pipeline step and no catalog call is made for it.                       *)
C1_NotReadyIs503 ==
    \A r \in Slots :
        (PostWithImage(r) /\ seen[r] \in {"Unloaded", "Loading"}) =>
            /\ pc[r] = "done"
            /\ sent[r] = 1
            /\ resp[r] = Response(503, "json", {"success", "error"}, FALSE,
                                  "AI Model is still loading...", <<>>, <<>>, "")
            /\ NothingRan(r)

----------------------------------------------------------------------------
(* C2: once model initialization has failed, a POST /match with an image   *)
(* is answered with an outcome that can be told from the not-ready answer: *)
(* not the 503 the server gives while Unloaded or Loading.                 *)
C2_FailedIsDistinct ==
    \A r \in Slots :
        (PostWithImage(r) /\ seen[r] = "Failed") =>
            /\ pc[r] = "done"
            /\ resp[r].status # 503
            /\ resp[r] # ErrorBody(variant, 503, LoadingMessage(variant))

----------------------------------------------------------------------------
(* C3: a POST /match without an image (or with an empty one) is answered   *)
(* 400 {success: false, error: "No image provided"} in every engine state, *)
(* before the readiness check, and no pipeline step or catalog call runs.  *)
C3_NoImageIs400 ==
    \A r \in Slots :
        PostWithoutImage(r) =>
            /\ pc[r] = "done"
            /\ sent[r] = 1
            /\ resp[r] = Response(400, "json", {"success", "error"}, FALSE,
                                  "No image provided", <<>>, <<>>, "")
            /\ NothingRan(r)

----------------------------------------------------------------------------
(* C4: GET /health is always answered 200 with the JSON body               *)
(* {status: "online", ai_ready: b}, b being true exactly when the engine   *)
(* is Ready.                                                               *)
C4_HealthReportsReady ==
    \A r \in Slots :
        (req[r].method = "GET" /\ req[r].path = "/health") =>
            /\ pc[r] = "done"
            /\ resp[r].status = 200
            /\ resp[r].type = "json"
            /\ resp[r].fields = {"status", "ai_ready"}
            /\ resp[r].ai_ready = (seen[r] = "Ready")

----------------------------------------------------------------------------
(* C5: when a step of an admitted request fails (decode, downsample, crop, *)
(* embedding, the catalog client or the catalog's answer), no later step   *)
(* runs: the steps started are the pipeline's steps up to the failing one, *)
(* the catalog is called at most once and not at all after an earlier      *)
(* failure; exactly one response is sent, a 500 JSON error without matches *)
(* and without colors_detected; and the process stays alive: the slot of   *)
(* the failed request takes the next request.                              *)

PipelineOrder == <<"decode", "tiny", "colors", "meta", "crop", "embed", "rpc">>

IsPrefix(a, b) == Len(a) <= Len(b) /\ SubSeq(b, 1, Len(a)) = a

\* the last step started when the step named by failedAt threw
LastStepOf(f) == IF f = "client" THEN "embed" ELSE f

C5_FailureAborts ==
    /\ alive
    /\ \A r \in Slots :
        /\ sent[r] <= 1
        /\ rpcCalls[r] <= 1
        /\ (pc[r] \in InFlight => sent[r] = 0)
        /\ (pc[r] = "done" /\ failedAt[r] # "none") =>
            /\ sent[r] = 1
            /\ resp[r].status = 500
            /\ resp[r].type = "json"
            /\ "error" \in resp[r].fields
            /\ resp[r].fields \cap {"matches", "colors_detected"} = {}
            /\ resp[r].matches = <<>> /\ resp[r].colors = <<>>
            /\ IsPrefix(steps[r], PipelineOrder)
            /\ steps[r] # <<>>
            /\ steps[r][Len(steps[r])] = LastStepOf(failedAt[r])
            /\ (failedAt[r] # "rpc" => rpcCalls[r] = 0)
            /\ ENABLED Arrive(r, Request("POST", "/match", Photo))

\* a request whose catalog call returned an error has been answered 500
C5_Witness ==
    \E r \in Slots :
        /\ pc[r] = "done" /\ failedAt[r] = "rpc" /\ rpcCalls[r] = 1
        /\ steps[r] = PipelineOrder
        /\ resp[r].status = 500

----------------------------------------------------------------------------
(* C6: pipeline(...) is called at most once, and only on the step from     *)
(* Unloaded to Loading; the engine state changes only Unloaded -> Loading, *)
(* Loading -> Ready or Loading -> Failed, whatever requests are served in  *)
(* between: never back to Unloaded, Ready stays Ready, Failed stays        *)
(* Failed.                                                                 *)

EngineMoves == {<<"Unloaded", "Loading">>, <<"Loading", "Ready">>, <<"Loading", "Failed">>}

EngineStep ==
    /\ loadStarts' <= 1
    /\ (EngineState' # EngineState => <<EngineState, EngineState'>> \in EngineMoves)
    /\ (loadStarts' # loadStarts <=>
            (EngineState = "Unloaded" /\ EngineState' = "Loading"))
    /\ (loadStarts' # loadStarts => loadStarts' = loadStarts + 1)

C6_EngineLifecycle == [][EngineStep]_vars

\* a request was answered by an engine that had failed, after its one load
C6_Witness ==
    /\ EngineState = "Failed" /\ loadStarts = 1
    /\ \E r \in Slots : pc[r] = "done" /\ PostWithImage(r) /\ seen[r] = "Failed"

----------------------------------------------------------------------------
(* C7: with handlers interleaved at their awaits against a ready engine    *)
(* and an unchanged catalog, every response is the one the request gets    *)
(* when it runs alone; a step changes the state of one slot only, and no   *)
(* handler step changes the engine handle.                                 *)

\* what a POST /match gets from a ready engine with nothing else in flight
SoloResponse(v, cat, q) ==
    LET img == q.image
        rc  == CropRect(v, img.width, img.height)
        qy  == RpcArgs(Truncate(ModelOutput(img)), TopColors(TinyData(img)))
        rep == RpcReply(cat, qy)
    IN  IF img.kind \in {"missing", "empty"}
        THEN ErrorBody(v, 400, NoImageMessage(v))
        ELSE IF img.kind = "nonstring"
        THEN ErrorBody(v, 500, "image.replace is not a function")
        ELSE IF ~img.decodable
        THEN ErrorBody(v, 500, "Input buffer contains unsupported image format")
        ELSE IF ~ExtractOk(img, rc)
        THEN ErrorBody(v, 500, "extract_area: bad extract area")
        ELSE IF ~img.embedOk
        THEN ErrorBody(v, 500, "inference failed")
        ELSE IF cat = "unconfigured"
        THEN ErrorBody(v, 500, NoClientMessage(v))
        ELSE IF rep.error
        THEN ErrorBody(v, 500, rep.message)
        ELSE SuccessBody(rep.data, qy.query_colors)

SlotState(r) ==
    <<pc[r], req[r], seen[r], topColors[r], rect[r], query[r],
      steps[r], rpcCalls[r], sent[r], failedAt[r], resp[r]>>

\* SoloResponse tabulated (a table is computed once)
SoloTable ==
    [v \in Variants, cat \in {"ok", "error", "unconfigured"}, q \in ConcRequests |->
        SoloResponse(v, cat, q)]

AnswersAsAlone ==
    \A r \in Slots :
        (pc[r] = "done" /\ req[r].method = "POST" /\ seen[r] = "Ready") =>
            resp[r] = SoloTable[variant, catalog, req[r]]

OneSlotPerStep ==
    /\ \A r1, r2 \in Slots :
        (SlotState(r1)' # SlotState(r1) /\ SlotState(r2)' # SlotState(r2)) => r1 = r2
    /\ extractor' = extractor
    /\ catalog' = catalog

C7_Independent == []AnswersAsAlone /\ [][OneSlotPerStep]_vars

\* two handlers on different images in flight at once, one waiting for the
\* catalog and one for its crop
C7_Witness ==
    \E r1, r2 \in Slots :
        /\ pc[r1] = "rpc" /\ pc[r2] = "crop"
        /\ req[r1].image # req[r2].image
        /\ query[r1].query_colors # topColors[r2]

----------------------------------------------------------------------------
----------------------------------------------------------------------------
(* C9: the colours the handler holds after its loop are the reference      *)
(* profile of the pixel sequence: of the pixels that are neither near      *)
(* white (all channels > 240) nor near black (all channels < 15), counted  *)
(* by exact RGB value, the first min(3, distinct) colours by descending    *)
(* count, ties by first occurrence, as 6-digit hex strings.                *)

RefExcluded(p) ==
    \/ \A c \in 1..3 : p[c] > 240
    \/ \A c \in 1..3 : p[c] < 15

RefHex(p) ==
    <<"#", HexChars[(p[1] \div 16) + 1], HexChars[(p[1] % 16) + 1],
           HexChars[(p[2] \div 16) + 1], HexChars[(p[2] % 16) + 1],
           HexChars[(p[3] \div 16) + 1], HexChars[(p[3] % 16) + 1]>>

RefProfile(px) ==
    LET Kept      == {i \in 1..Len(px) : ~RefExcluded(px[i])}
        Colors    == {px[i] : i \in Kept}
        Count(c)  == Cardinality({i \in Kept : px[i] = c})
        First(c)  == CHOOSE i \in Kept : px[i] = c /\ \A j \in Kept : px[j] = c => i <= j
        Before(c, d) ==
            \/ Count(c) > Count(d)
            \/ (Count(c) = Count(d) /\ First(c) < First(d))
        Rank(c)   == 1 + Cardinality({d \in Colors : Before(d, c)})
        n         == IF Cardinality(Colors) < 3 THEN Cardinality(Colors) ELSE 3
    IN  [k \in 1..n |-> RefHex(CHOOSE c \in Colors : Rank(c) = k)]

C9_AllExcludedWitness ==
    \E r \in Slots :
        /\ pc[r] = "meta"
        /\ req[r].image.pixels = <<White, Black>>
        /\ topColors[r] = <<>>

----------------------------------------------------------------------------
(* C10: for every width W >= 1 and height H >= 1 the rectangle handed to   *)
(* the crop is left = round(0.15 W), top = round(0.15 H), width =          *)
(* round(0.7 W), height = round(0.7 H), rounding halves away from zero, in *)
(* every variant; for 1000 x 800 it is 150, 120, 700, 560.                 *)

\* n / d rounded to the nearest integer, halves away from zero (n, d > 0)
RoundHalfAway(n, d) == (2 * n + d) \div (2 * d)

RefRect(w, h) ==
    Rect(RoundHalfAway(15 * w, 100), RoundHalfAway(15 * h, 100),
         RoundHalfAway(7 * w, 10), RoundHalfAway(7 * h, 10))

C10_CropIsRounded ==
    \A r \in Slots :
        pc[r] \in {"crop", "embed"} =>
            /\ rect[r] = RefRect(req[r].image.width, req[r].image.height)
            /\ (req[r].image.width = 1000 /\ req[r].image.height = 800
                    => rect[r] = Rect(150, 120, 700, 560))

----------------------------------------------------------------------------
(* C11: for every decodable image, with or without alpha, the downsample   *)
(* scanned for colours has 3 bytes per pixel, so the stride-3 loop reads   *)
(* each pixel's own (R, G, B) and the colours are those of the pixels; and *)
(* the frame wrapped for the model has the 3 channels it is declared with. *)

Scanned(r) == "colors" \in {steps[r][i] : i \in 1..Len(steps[r])}

Wrapped(r) == "embed" \in {steps[r][i] : i \in 1..Len(steps[r])}

C11_ThreeChannels ==
    \A r \in Slots :
        /\ Scanned(r) =>
              /\ Len(TinyData(req[r].image)) = 3 * Len(req[r].image.pixels)
              /\ topColors[r] = RefProfile(req[r].image.pixels)
        /\ Wrapped(r) => FrameChannels(req[r].image) = RawImageChannels

=====
